---------------------------- MODULE Spec2Model ----------------------------
(***************************************************************************)
(* Model of src/app.js: the water-bill OCR reconciliation page.            *)
(*                                                                         *)
(* Texts are sequences of one-character strings, so that cleanMeter, trim, *)
(* the digit filter and parseFloat are computed character by character.    *)
(* The program state is prevData (the Step1 records), ocrResults (the OCR  *)
(* rows in push order), nextId, the rendered table and the running         *)
(* invocations of the two image-input change handlers.                     *)
(***************************************************************************)
EXTENDS Integers, Sequences, FiniteSets, TLC

VARIABLES
    prevData,    \* app.js:26  array of {Name, Meter, CleanMeter, Consumption}
    ocrResults,  \* app.js:27  array of {id, preview, rawText, meterOCR, consumptionOCR}
    nextId,      \* app.js:28
    view,        \* the rows of resultsBody as last rendered by renderResults
    tasks,       \* running change-handler invocations (async functions)
    nextImg,     \* history: number of the next image file handed to an input
    submitted,   \* history: the batches of image files, in the order they were submitted
    cleared,     \* history: the image files submitted before the last Clear
    processed,   \* history: the image files whose processImageFile returned
    failed,      \* history: the image files whose read or recognition failed
    exported,    \* the rows last handed to XLSX.utils.json_to_sheet, with the state they were built from
    phase,       \* history: "idle", "exported" or "reimported"
    query,       \* input of the pure function applied by SpecMatch / SpecDev
    reply        \* its result

vars == <<prevData, ocrResults, nextId, view, tasks, nextImg, submitted,
          cleared, processed, failed, exported, phase, query, reply>>

---------------------------------------------------------------------------
(* Bounds of the model *)

MaxImages == 2
MaxBatch == 2
MaxStore == 3
MaxLedger == 2
MaxLen == 7

---------------------------------------------------------------------------
(* Characters and texts *)

LowerCase ==
    <<"a","b","c","d","e","f","g","h","i","j","k","l","m",
      "n","o","p","q","r","s","t","u","v","w","x","y","z">>

UpperCase ==
    <<"A","B","C","D","E","F","G","H","I","J","K","L","M",
      "N","O","P","Q","R","S","T","U","V","W","X","Y","Z">>

Digits == <<"0","1","2","3","4","5","6","7","8","9">>

Range(s) == {s[i] : i \in DOMAIN s}

DigitSet == Range(Digits)

LetterSet == Range(LowerCase) \cup Range(UpperCase)

LowerSet == Range(LowerCase)

IsDigit(c) == c \in DigitSet

IsLetter(c) == c \in LetterSet

IsSpace(c) == c = " "

\* String.prototype.toUpperCase on one character
UpperMap ==
    [c \in LowerSet |-> UpperCase[CHOOSE i \in DOMAIN LowerCase : LowerCase[i] = c]]

UpperOf(c) == IF c \in LowerSet THEN UpperMap[c] ELSE c

ToUpperCase(s) == [i \in DOMAIN s |-> UpperOf(s[i])]

\* String.prototype.trim: the text from its first to its last non-blank
TrimLeft(s) ==
    LET kept == {i \in DOMAIN s : ~IsSpace(s[i])}
    IN  IF kept = {} THEN <<>>
        ELSE SubSeq(s, CHOOSE i \in kept : \A j \in kept : i <= j, Len(s))

TrimRight(s) ==
    LET kept == {i \in DOMAIN s : ~IsSpace(s[i])}
    IN  IF kept = {} THEN <<>>
        ELSE SubSeq(s, 1, CHOOSE i \in kept : \A j \in kept : j <= i)

Trim(s) == TrimRight(TrimLeft(s))

\* s.replace(/[^0-9]/g, '')
IsDigitChar(c) == IsDigit(c)
OnlyDigits(s) == SelectSeq(s, IsDigitChar)

\* s.replace(/,/g, '')
IsNotComma(c) == c # ","
StripCommas(s) == SelectSeq(s, IsNotComma)

\* s.slice(-n)
SliceLast(s, n) ==
    IF Len(s) <= n THEN s ELSE SubSeq(s, Len(s) - n + 1, Len(s))

\* the literal 'Not Found'
NotFound == <<"N","o","t"," ","F","o","u","n","d">>

\* x || '' on a text: the empty text is the only falsy text
OrEmpty(s) == IF s = <<>> THEN <<>> ELSE s

\* null / undefined
Null == [null |-> TRUE]

---------------------------------------------------------------------------
(* Helpers of app.js *)

\* cleanMeter: keep letters, digits and hyphens, upper-case, trim
IsMeterChar(c) == IsLetter(c) \/ IsDigit(c) \/ c = "-"

cleanMeter(s) ==
    IF s = <<>> THEN <<>>
    ELSE Trim(ToUpperCase(SelectSeq(s, IsMeterChar)))

Last6 == 6

\* Array.prototype.find: the first element among those the callback accepts
\* (hits: their positions), else undefined
FindFirst(seq, hits) ==
    IF hits = {} THEN Null
    ELSE seq[CHOOSE i \in hits : \A j \in hits : i <= j]

\* findPrevByOCR without its exact stage
findPrevLast6Only(meterOCR, store) ==
    LET cleaned == cleanMeter(meterOCR)
        last6 == SliceLast(OnlyDigits(cleaned), Last6)
        byLast6 == {i \in DOMAIN store :
                      SliceLast(OnlyDigits(store[i].CleanMeter), Last6) = last6}
    IN  IF cleaned = <<>> THEN Null
        ELSE IF last6 # <<>> THEN FindFirst(store, byLast6)
        ELSE Null

\* findPrevByOCR, with prevData passed explicitly
findPrevByOCR(meterOCR, store) ==
    LET cleaned == cleanMeter(meterOCR)
        exact == FindFirst(store, {i \in DOMAIN store : store[i].CleanMeter = cleaned})
        digits == OnlyDigits(cleaned)
        last6 == SliceLast(digits, Last6)
        byLast6 == {i \in DOMAIN store :
                      SliceLast(OnlyDigits(store[i].CleanMeter), Last6) = last6}
    IN  IF cleaned = <<>> THEN Null
        ELSE IF exact # Null THEN exact
        ELSE IF last6 # <<>> THEN FindFirst(store, byLast6)
        ELSE Null

\* The value of a decimal digit
DigitValue(c) == (CHOOSE i \in DOMAIN Digits : Digits[i] = c) - 1

\* the longest run of digits a text starts with
LeadingDigits(s) ==
    LET others == {i \in DOMAIN s : ~IsDigit(s[i])}
    IN  IF others = {} THEN s
        ELSE SubSeq(s, 1, (CHOOSE i \in others : \A j \in others : i <= j) - 1)

\* the number a run of digits denotes
DecimalValue(ds) ==
    LET value[k \in 0..Len(ds)] ==
            IF k = 0 THEN 0 ELSE 10 * value[k - 1] + DigitValue(ds[k])
    IN  value[Len(ds)]

NaN == [ok |-> FALSE, val |-> 0]

\* parseFloat on texts without '.', 'e' or 'Infinity': leading white space is
\* skipped, an optional sign and the longest run of digits are read, and the
\* rest is ignored; NaN when no digit is read.
parseFloat(s) ==
    LET t == TrimLeft(s)
        signed == t # <<>> /\ Head(t) \in {"-", "+"}
        body == IF signed THEN Tail(t) ELSE t
        ds == LeadingDigits(body)
        n == DecimalValue(ds)
    IN  IF ds = <<>> THEN NaN
        ELSE [ok |-> TRUE, val |-> IF signed /\ Head(t) = "-" THEN -n ELSE n]

Abs(x) == IF x < 0 THEN -x ELSE x

Threshold == 30

Gray == [text |-> "dash", cls |-> "diff-gray"]

\* calcDiffAbs with diff >= 30 for red
calcDiffAbsInclusive(prev, curr) ==
    LET pn == parseFloat(StripCommas(prev))
        cn == parseFloat(StripCommas(curr))
    IN  IF ~pn.ok \/ pn.val = 0 \/ ~cn.ok THEN Gray
        ELSE IF Abs(cn.val - pn.val) * 100 >= Threshold * Abs(pn.val)
             THEN [text |-> "percent", cls |-> "diff-red"]
             ELSE [text |-> "percent", cls |-> "diff-green"]

\* calcDiffAbs.  ((cn - pn) / pn) * 100 > 30 is decided exactly as
\* |cn - pn| * 100 > 30 * |pn|; on the integers read here the double
\* computation gives the same verdict.  The digits of the rounded percentage
\* are not modelled: text is "dash" for the em dash and "percent" otherwise.
calcDiffAbs(prev, curr) ==
    LET pn == parseFloat(StripCommas(prev))
        cn == parseFloat(StripCommas(curr))
    IN  IF ~pn.ok \/ pn.val = 0 \/ ~cn.ok THEN Gray
        ELSE IF Abs(cn.val - pn.val) * 100 > Threshold * Abs(pn.val)
             THEN [text |-> "percent", cls |-> "diff-red"]
             ELSE [text |-> "percent", cls |-> "diff-green"]

---------------------------------------------------------------------------
(* Step 1: the rows of the first sheet become prevData *)

NameAliases == <<"Name", "name", "Account Name", "Customer">>

MeterAliases == <<"Meter No.", "Meter No", "MeterNo", "Meter", "Meter">>

\* the consumption aliases without the export's own column name
ConsAliasesStep1Only == <<"Consumption", "Consumption Qty", "Qty", "Prev">>

ConsAliases == <<"Consumption", "Consumption Qty", "Qty", "Prev Consumption", "Prev">>

\* row[col]: undefined when the sheet has no such column
Cell(row, col) == IF col \in DOMAIN row THEN row[col] ELSE <<>>

\* row[a1] || row[a2] || ... || ''
RECURSIVE FirstTruthy(_, _)
FirstTruthy(row, aliases) ==
    IF aliases = <<>> THEN <<>>
    ELSE IF Cell(row, Head(aliases)) # <<>> THEN Cell(row, Head(aliases))
    ELSE FirstTruthy(row, Tail(aliases))

\* the body of json.map(row => ...)
LoadRow(row) ==
    LET name == FirstTruthy(row, NameAliases)
        meter == FirstTruthy(row, MeterAliases)
        cons == FirstTruthy(row, ConsAliases)
    IN  [Name |-> Trim(name), Meter |-> Trim(meter),
         CleanMeter |-> cleanMeter(meter), Consumption |-> Trim(cons)]

LoadRows(rows) == [i \in DOMAIN rows |-> LoadRow(rows[i])]

---------------------------------------------------------------------------
(* Export *)

ExportHeader == <<"Name", "Meter No.", "Prev Consumption", "Current Consumption">>

MakeRow(name, meter, prevCons, currCons) ==
    ("Name" :> name) @@ ("Meter No." :> meter) @@
    ("Prev Consumption" :> prevCons) @@ ("Current Consumption" :> currCons)

\* the row pushed for one OCR entry
OcrExportRow(r, store) ==
    LET prev == findPrevByOCR(r.meterOCR, store)
    IN  MakeRow(IF prev # Null THEN prev.Name ELSE NotFound,
                IF prev # Null THEN prev.Meter ELSE NotFound,
                IF prev # Null THEN prev.Consumption ELSE NotFound,
                OrEmpty(r.consumptionOCR))

\* matchedPrevKeys after the loop over ocrResults
MatchedPrevKeys(ledger, store) ==
    {findPrevByOCR(ledger[i].meterOCR, store).CleanMeter :
        i \in {j \in DOMAIN ledger :
                 LET prev == findPrevByOCR(ledger[j].meterOCR, store)
                 IN  prev # Null /\ prev.CleanMeter # <<>>}}

\* the row pushed for one Step1 record left unmatched
PrevExportRow(p) ==
    MakeRow(OrEmpty(p.Name), OrEmpty(p.Meter), OrEmpty(p.Consumption), <<>>)

\* the loop over prevData: records with a blank key or a key in the set are skipped
UnmatchedRows(store, keys) ==
    LET IsPushed(p) == p.CleanMeter # <<>> /\ p.CleanMeter \notin keys
        pushed == SelectSeq(store, IsPushed)
    IN  [i \in DOMAIN pushed |-> PrevExportRow(pushed[i])]

\* exportRows with the two loops in the other order
ExportRowsPrevFirst(ledger, store) ==
    UnmatchedRows(store, MatchedPrevKeys(ledger, store))
        \o [i \in DOMAIN ledger |-> OcrExportRow(ledger[i], store)]

\* exportRows as handed to json_to_sheet
ExportRows(ledger, store) ==
    [i \in DOMAIN ledger |-> OcrExportRow(ledger[i], store)]
        \o UnmatchedRows(store, MatchedPrevKeys(ledger, store))

---------------------------------------------------------------------------
(* The rendered table *)

\* one <tr> of renderResults
ViewRow(r, store) ==
    LET prevMatch == findPrevByOCR(r.meterOCR, store)
        prevCons == IF prevMatch # Null THEN prevMatch.Consumption ELSE NotFound
    IN  [id |-> r.id,
         name |-> IF prevMatch # Null THEN prevMatch.Name ELSE NotFound,
         meterPrev |-> IF prevMatch # Null THEN prevMatch.Meter ELSE NotFound,
         prevCons |-> prevCons,
         meterOCR |-> r.meterOCR,
         consumptionOCR |-> r.consumptionOCR,
         diff |-> IF prevMatch # Null /\ r.consumptionOCR # <<>> /\ prevCons # NotFound
                  THEN calcDiffAbs(prevCons, r.consumptionOCR)
                  ELSE Gray]

renderResults(ledger, store) == [i \in DOMAIN ledger |-> ViewRow(ledger[i], store)]

---------------------------------------------------------------------------
(* OCR of one image *)

\* What extractMeterFromTextBlocks / extractConsumptionFromTextBlocks can
\* return on a recognised text: the first regular expression that matches
\* decides, '' when none does.  The text itself is not modelled; a result of
\* recognizeDataURL carries the two values its text would yield.
ExtractedMeters == {<<>>, <<"X","-","1","2">>}

ExtractedQtys == {<<"1","3","0">>}

\* recognizeDataURL: null (Tesseract threw, or no res.data), data with an
\* empty text, or data with a text
OcrData ==
    {[kind |-> "null", meter |-> <<>>, qty |-> <<>>],
     [kind |-> "empty", meter |-> <<>>, qty |-> <<>>]}
    \cup [kind : {"text"}, meter : ExtractedMeters, qty : ExtractedQtys]

extractMeterFromTextBlocks(data) ==
    IF data.kind = "text" THEN data.meter ELSE <<>>

extractConsumptionFromTextBlocks(data) ==
    IF data.kind = "text" THEN data.qty ELSE <<>>

\* x || 'Not Found'
OrNotFound(s) == IF s = <<>> THEN NotFound ELSE s

\* the entry built by processImageFile from the result of recognizeDataURL
NewEntry(id, img, data) ==
    [id |-> id,
     preview |-> img,
     rawText |-> IF data.kind = "text" THEN "text" ELSE "",
     meterOCR |-> OrNotFound(extractMeterFromTextBlocks(data)),
     consumptionOCR |-> OrNotFound(extractConsumptionFromTextBlocks(data))]

\* ocrResults.push(entry)
PushEntry(ledger, entry) == Append(ledger, entry)

\* the id given to the next entry and the value nextId++ leaves behind
NewId(n) == n

\* nextId left as it was
BumpIdStuck(n) == n

BumpId(n) == n + 1

\* the for-loop of a change handler after processImageFile returned for the
\* first file of t: the next file is started, or the handler ends
AfterImage(t) ==
    LET rest == Tail(t.files)
    IN  IF rest = <<>> THEN tasks \ {t}
        ELSE (tasks \ {t}) \cup
             {[t EXCEPT !.files = rest, !.stage = "reading"]}

\* the rejection leaves the handler: its remaining files are dropped
AbortBatch(t) == tasks \ {t}

\* after fileToDataURL rejected: processImageFile catches and returns
AfterReadError(t) == AfterImage(t)

Inputs == {"fileInput", "cameraInput"}

\* change event of fileInput / cameraInput with n files: the handler runs up
\* to the first await, inside processImageFile of the first file.  The two
\* handlers have the same body; image files are numbered as they are handed in.
Submit(input, n) ==
    /\ nextImg + n - 1 <= MaxImages
    /\ LET files == [i \in 1..n |-> nextImg + i - 1]
       IN  /\ tasks' = tasks \cup {[files |-> files, stage |-> "reading"]}
           /\ submitted' = Append(submitted, files)
    /\ nextImg' = nextImg + n
    /\ UNCHANGED <<prevData, ocrResults, nextId, view, cleared, processed,
                   failed, exported, phase, query, reply>>

\* fileToDataURL resolved: recognizeDataURL is started
ReadOk(t) ==
    /\ t \in tasks /\ t.stage = "reading"
    /\ tasks' = (tasks \ {t}) \cup {[t EXCEPT !.stage = "recognizing"]}
    /\ UNCHANGED <<prevData, ocrResults, nextId, view, nextImg, submitted,
                   cleared, processed, failed, exported, phase, query, reply>>

\* fileToDataURL rejected: the catch of processImageFile, then the next file
ReadError(t) ==
    /\ t \in tasks /\ t.stage = "reading"
    /\ tasks' = AfterReadError(t)
    /\ processed' = processed \cup {Head(t.files)}
    /\ failed' = failed \cup {Head(t.files)}
    /\ UNCHANGED <<prevData, ocrResults, nextId, view, nextImg, submitted,
                   cleared, exported, phase, query, reply>>

\* recognizeDataURL returned data: the entry is pushed, the table rendered,
\* and the handler goes on to its next file
RecognizeDone(t, data) ==
    /\ t \in tasks /\ t.stage = "recognizing"
    /\ LET pushed == PushEntry(ocrResults, NewEntry(NewId(nextId), Head(t.files), data))
       IN  /\ ocrResults' = pushed
           /\ view' = renderResults(pushed, prevData)
    /\ nextId' = BumpId(nextId)
    /\ tasks' = AfterImage(t)
    /\ processed' = processed \cup {Head(t.files)}
    /\ failed' = IF data.kind # "text" THEN failed \cup {Head(t.files)} ELSE failed
    /\ UNCHANGED <<prevData, nextImg, submitted, cleared, exported, phase,
                   query, reply>>

---------------------------------------------------------------------------
(* Edits, Clear, Step 1 load, Export *)

Fields == {"meterOCR", "consumptionOCR"}

\* the value stored as typed
EditFieldRaw(ledger, row, field, value) ==
    [ledger EXCEPT ![row][field] = value]

\* ocrResults[row][field] = e.target.value.trim()
EditField(ledger, row, field, value) ==
    [ledger EXCEPT ![row][field] = Trim(value)]

\* what a user can type into an editable cell
EditTexts == {<<" ","1","2"," ">>}

\* the assignment in the input listener of the editable cell (row, field)
EditLedger(row, field, value) ==
    /\ row \in DOMAIN view
    /\ UNCHANGED <<prevData, nextId, tasks, nextImg, submitted, cleared,
                   processed, failed, exported, phase, query, reply>>
    /\ ocrResults' = EditField(ocrResults, row, field, value)

\* oninput of the editable cell (row, field) of the rendered table: the
\* assignment, then renderResults() on the ledger it left
Edit(row, field, value) ==
    /\ EditLedger(row, field, value)
    /\ view' = renderResults(ocrResults', prevData)

ClearedLedger == <<>>

FirstId == 1

\* click of clearBtn
Clear ==
    /\ ocrResults' = ClearedLedger
    /\ nextId' = FirstId
    /\ view' = renderResults(ClearedLedger, prevData)
    /\ cleared' = 1..(nextImg - 1)
    /\ UNCHANGED <<prevData, tasks, nextImg, submitted, processed, failed,
                   exported, phase, query, reply>>

\* reader.onload of the Step 1 file: prevData is replaced; the table is not
\* rendered again
LoadExcel(rows) ==
    /\ prevData' = LoadRows(rows)
    /\ UNCHANGED <<ocrResults, nextId, view, tasks, nextImg, submitted,
                   cleared, processed, failed, exported, phase, query, reply>>

\* click of exportBtn
Export ==
    /\ phase \in {"idle", "exported"}
    /\ exported' = [rows |-> ExportRows(ocrResults, prevData),
                    ledger |-> ocrResults, store |-> prevData]
    /\ phase' = "exported"
    /\ UNCHANGED <<prevData, ocrResults, nextId, view, tasks, nextImg,
                   submitted, cleared, processed, failed, query, reply>>

\* the exported sheet is chosen as the Step 1 file
Reimport ==
    /\ phase = "exported"
    /\ prevData' = LoadRows(exported.rows)
    /\ phase' = "reimported"
    /\ UNCHANGED <<ocrResults, nextId, view, tasks, nextImg, submitted,
                   cleared, processed, failed, exported, query, reply>>

---------------------------------------------------------------------------
(* The page: image handlers, edits, Clear and the Step 1 load interleaved *)

Pending == [done |-> FALSE]

NoExport == [rows |-> <<>>, ledger |-> <<>>, store |-> <<>>]

\* a Step 1 sheet as sheet_to_json returns it
MainSheet ==
    << ("Name" :> <<"a">>) @@ ("Meter No." :> <<"x","-","1","2">>)
           @@ ("Consumption" :> <<"1","0","0">>),
       ("Customer" :> <<"b">>) @@ ("Meter" :> <<"1","2">>)
           @@ ("Qty" :> <<"1",",","0","0","0">>) >>

Init ==
    /\ prevData = <<>>
    /\ ocrResults = <<>>
    /\ nextId = 1
    /\ view = <<>>
    /\ tasks = {}
    /\ nextImg = 1
    /\ submitted = <<>>
    /\ cleared = {}
    /\ processed = {}
    /\ failed = {}
    /\ exported = NoExport
    /\ phase = "idle"
    /\ query = <<>>
    /\ reply = Pending

Next ==
    \/ \E input \in Inputs, n \in 1..MaxBatch : Submit(input, n)
    \/ \E t \in tasks : ReadOk(t)
    \/ \E t \in tasks : ReadError(t)
    \/ \E t \in tasks, data \in OcrData : RecognizeDone(t, data)
    \/ \E row \in DOMAIN view, field \in Fields, value \in EditTexts :
          Edit(row, field, value)
    \/ Clear
    \/ LoadExcel(MainSheet)

Spec == Init /\ [][Next]_vars

\* Every promise that settles has its continuation run: a started read or
\* recognition ends, one way or the other.
\* The handler holding image g moves on: the continuation of its pending
\* promise runs.  These are the steps ReadOk, ReadError and RecognizeDone of
\* that handler, told by what they do to tasks.
Settle(g) ==
    \E t \in tasks :
        /\ Head(t.files) = g
        /\ \/ t.stage = "reading"
              /\ tasks' = (tasks \ {t}) \cup {[t EXCEPT !.stage = "recognizing"]}
           \/ tasks' = AfterImage(t)

FairSpec == Spec /\ \A g \in 1..MaxImages : WF_tasks(Settle(g))

---------------------------------------------------------------------------
(* Sequences over a set, up to a length *)

SeqsUpTo(S, n) == UNION {[1..k -> S] : k \in 0..n}

---------------------------------------------------------------------------
(* Export and re-import, from every small store and ledger *)

\* rows of Step 1 sheets: the columns and cells differ in the aliases used,
\* in case, in surrounding blanks, in blank cells and in a shared meter number
SheetRows ==
    { ("Name" :> <<"a">>) @@ ("Meter No." :> <<"x","-","1","2">>)
          @@ ("Consumption" :> <<"1","0","0">>),
      ("Name" :> <<" ","b">>) @@ ("Meter No" :> <<"X","-","1","2"," ">>)
          @@ ("Prev Consumption" :> <<"1",",","0","0","0">>),
      ("Customer" :> <<"c">>) @@ ("Meter" :> <<>>) @@ ("Qty" :> <<"5">>),
      ("name" :> <<"d">>) @@ ("MeterNo" :> <<"9","/","1","1","2">>)
          @@ ("Consumption" :> <<>>) @@ ("Prev" :> <<"7">>),
      ("Account Name" :> <<>>) @@ ("Meter No." :> <<"1","2">>)
          @@ ("Consumption Qty" :> <<"0">>) }

\* the editable fields of the OCR rows
\* an exact match, a match by the last digits, two entries without match
LedgerFields ==
    {[meterOCR |-> <<"X","-","1","2">>, consumptionOCR |-> <<"1","3","0">>],
     [meterOCR |-> <<"b","1","2">>, consumptionOCR |-> <<>>],
     [meterOCR |-> NotFound, consumptionOCR |-> <<"1","3","0">>],
     [meterOCR |-> NotFound, consumptionOCR |-> NotFound]}

\* ocrResults with n entries: ids 1..n in push order
Ledgers == SeqsUpTo(LedgerFields, MaxLedger)

MakeLedger(l) ==
    [i \in DOMAIN l |->
        [id |-> i, preview |-> i, rawText |-> "text",
         meterOCR |-> l[i].meterOCR, consumptionOCR |-> l[i].consumptionOCR]]

InitExport ==
    /\ \E sheet \in SeqsUpTo(SheetRows, MaxStore) : prevData = LoadRows(sheet)
    /\ \E l \in Ledgers : ocrResults = MakeLedger(l)
    /\ nextId = Len(ocrResults) + 1
    /\ view = renderResults(ocrResults, prevData)
    /\ tasks = {}
    /\ nextImg = Len(ocrResults) + 1
    /\ submitted = [i \in DOMAIN ocrResults |-> <<i>>]
    /\ cleared = {}
    /\ processed = 1..Len(ocrResults)
    /\ failed = {}
    /\ exported = NoExport
    /\ phase = "idle"
    /\ query = <<>>
    /\ reply = Pending

NextExport == Export \/ Reimport

SpecExport == InitExport /\ [][NextExport]_vars

---------------------------------------------------------------------------
(* findPrevByOCR on every small store and input *)

\* meter cells of the Step 1 sheet
MatchMeters ==
    {<<>>, <<"1","2">>, <<"x","-","1","2">>, <<"b"," ","1","1","2">>,
     <<"X","-","1","1","2","1","2","1","2">>}

MaxMatchStore == 2

\* record k of a store is named k, so that records sharing a meter differ
MatchStore(ms) ==
    [k \in DOMAIN ms |->
        [Name |-> <<Digits[k + 1]>>, Meter |-> Trim(ms[k]),
         CleanMeter |-> cleanMeter(ms[k]), Consumption |-> <<>>]]

MatchPrefixes == {<<>>, <<"a">>, <<"x","-">>, <<"b"," ">>}

\* OCR / typed meter texts: an optional prefix and up to MaxLen digits 1, 2;
\* and the placeholder
MatchInputs ==
    {p \o d : p \in MatchPrefixes, d \in SeqsUpTo({"1", "2"}, MaxLen)}
        \cup {NotFound}

ApplyMatch ==
    /\ reply = Pending
    /\ reply' = [done |-> TRUE, value |-> findPrevByOCR(query, prevData)]
    /\ UNCHANGED <<prevData, ocrResults, nextId, view, tasks, nextImg,
                   submitted, cleared, processed, failed, exported, phase, query>>

InitMatch ==
    /\ \E ms \in SeqsUpTo(MatchMeters, MaxMatchStore) : prevData = MatchStore(ms)
    /\ query \in MatchInputs
    /\ reply = Pending
    /\ ocrResults = <<>>
    /\ nextId = 1
    /\ view = <<>>
    /\ tasks = {}
    /\ nextImg = 1
    /\ submitted = <<>>
    /\ cleared = {}
    /\ processed = {}
    /\ failed = {}
    /\ exported = NoExport
    /\ phase = "idle"

SpecMatch == InitMatch /\ [][ApplyMatch]_vars

---------------------------------------------------------------------------
(* calcDiffAbs on every pair of short texts *)

MaxDigits == 3

DevAlphabet == {"0", "1", "3", ",", "a"}

DevTexts == SeqsUpTo(DevAlphabet, MaxDigits)

ApplyDiff ==
    /\ reply = Pending
    /\ reply' = [done |-> TRUE, value |-> calcDiffAbs(query[1], query[2])]
    /\ UNCHANGED <<prevData, ocrResults, nextId, view, tasks, nextImg,
                   submitted, cleared, processed, failed, exported, phase, query>>

InitDev ==
    /\ query \in DevTexts \X DevTexts
    /\ reply = Pending
    /\ prevData = <<>>
    /\ ocrResults = <<>>
    /\ nextId = 1
    /\ view = <<>>
    /\ tasks = {}
    /\ nextImg = 1
    /\ submitted = <<>>
    /\ cleared = {}
    /\ processed = {}
    /\ failed = {}
    /\ exported = NoExport
    /\ phase = "idle"

SpecDev == InitDev /\ [][ApplyDiff]_vars

---------------------------------------------------------------------------
(* Claims about findPrevByOCR (SpecMatch) *)

MinOf(S) == CHOOSE k \in S : \A j \in S : k <= j

EndsWith(s, d) ==
    Len(d) <= Len(s) /\ SubSeq(s, Len(s) - Len(d) + 1, Len(s)) = d

\* the digits of a text, and the last six of them (all when fewer)
DigitsOf(s) == SelectSeq(s, IsDigitChar)

LastSixDigits(s) == SliceLast(DigitsOf(s), 6)

\* the match as C5 words it: fallback on "the digits of the record end with d"
MatchEndsWith(text, store) ==
    LET n == cleanMeter(text)
        exact == {k \in DOMAIN store : store[k].CleanMeter = n}
        d == LastSixDigits(n)
        fallback == {k \in DOMAIN store : EndsWith(DigitsOf(store[k].CleanMeter), d)}
    IN  IF n = <<>> THEN Null
        ELSE IF exact # {} THEN store[MinOf(exact)]
        ELSE IF d = <<>> THEN Null
        ELSE IF fallback # {} THEN store[MinOf(fallback)]
        ELSE Null

\* the match with the fallback on "the last six digits of the record are d"
MatchLastSix(text, store) ==
    LET n == cleanMeter(text)
        exact == {k \in DOMAIN store : store[k].CleanMeter = n}
        d == LastSixDigits(n)
        fallback == {k \in DOMAIN store : LastSixDigits(store[k].CleanMeter) = d}
    IN  IF n = <<>> THEN Null
        ELSE IF exact # {} THEN store[MinOf(exact)]
        ELSE IF d = <<>> THEN Null
        ELSE IF fallback # {} THEN store[MinOf(fallback)]
        ELSE Null

\* C5 as stated: match returns NotFound on an empty normalized input, else the
\* first record whose canonical identifier equals it, else the first record
\* whose digits end with d (the last six digits of the input, all when fewer),
\* else NotFound.  Refuted: the code wants the record's own last six digits to
\* equal d, so input 12 does not match a record with digits 112.
C5_MatchAsStated ==
    reply.done => reply.value = MatchEndsWith(query, prevData)

\* C5 amended: match returns NotFound on an empty normalized input, else the
\* first record in store order whose canonical identifier equals it (even when
\* an earlier record matches by fallback), else, with d the last six digits of
\* the input (all when fewer), NotFound when d is empty, else the first record
\* in store order whose own last six digits (all when fewer) equal d, else
\* NotFound; input without digits and without exact match gives NotFound.
C5_Match ==
    reply.done =>
        /\ reply.value = MatchLastSix(query, prevData)
        /\ (DigitsOf(cleanMeter(query)) = <<>>
              /\ (\A k \in DOMAIN prevData : prevData[k].CleanMeter # cleanMeter(query)))
           => reply.value = Null

\* C5 witness: the exact stage returned the second record although the first
\* one matches the input by its last six digits
C5_Witness ==
    /\ reply.done
    /\ Len(prevData) = 2
    /\ reply.value = prevData[2]
    /\ prevData[1] # prevData[2]
    /\ prevData[2].CleanMeter = cleanMeter(query)
    /\ LastSixDigits(prevData[1].CleanMeter) = LastSixDigits(cleanMeter(query))

---------------------------------------------------------------------------
(* Claims about calcDiffAbs (SpecDev) *)

\* the verdict of a deviation from the two parsed values
Verdict(p, c, value) ==
    /\ value.cls = "diff-gray" <=> (~p.ok \/ p.val = 0 \/ ~c.ok)
    /\ value.cls = "diff-gray" => value.text = "dash"
    /\ value.cls # "diff-gray" =>
          /\ value.cls \in {"diff-red", "diff-green"}
          /\ value.cls = "diff-red" <=> Abs(c.val - p.val) * 100 > 30 * Abs(p.val)

Text100 == <<"1","0","0">>

Text130 == <<"1","3","0">>

Text131 == <<"1","3","1">>

\* C6 as stated: NOT_APPLICABLE exactly when the prior value does not parse,
\* is zero, or the current value does not parse, commas being removed from the
\* prior value only; else ABOVE exactly when the deviation exceeds 30.
\* Refuted: the code removes the commas of the current value too.
C6_DeviationAsStated ==
    reply.done =>
        Verdict(parseFloat(StripCommas(query[1])), parseFloat(query[2]), reply.value)

\* C6 amended: commas are removed from both values before parsing;
\* NOT_APPLICABLE (gray, em dash) exactly when the prior value does not parse,
\* is zero, or the current value does not parse; else ABOVE exactly when
\* abs((current - prior) / prior) * 100 > 30, so 100 -> 130 is BELOW and
\* 100 -> 131 is ABOVE.
C6_Deviation ==
    reply.done =>
        /\ Verdict(parseFloat(StripCommas(query[1])),
                   parseFloat(StripCommas(query[2])), reply.value)
        /\ query = <<Text100, Text130>> => reply.value.cls = "diff-green"
        /\ query = <<Text100, Text131>> => reply.value.cls = "diff-red"

\* C6 witness: the deviation of exactly 30 has been classified
C6_Witness ==
    reply.done /\ query = <<Text100, Text130>> /\ reply.value.cls = "diff-green"

---------------------------------------------------------------------------
(* Claims about the export (SpecExport) *)

\* the record the Matcher gives entry i of a ledger
MatchOf(ledger, store, i) == findPrevByOCR(ledger[i].meterOCR, store)

\* the canonical identifiers recorded as consumed by the rows of a ledger
ConsumedKeys(ledger, store) ==
    {c \in {store[k].CleanMeter : k \in DOMAIN store} :
        \E i \in DOMAIN ledger :
            MatchOf(ledger, store, i) # Null /\ MatchOf(ledger, store, i).CleanMeter = c}

\* the positions of the prior records left for the second section
Unconsumed(ledger, store) ==
    {k \in DOMAIN store :
        store[k].CleanMeter # <<>> /\ store[k].CleanMeter \notin ConsumedKeys(ledger, store)}

\* the place of record k among the records of U, in store order
RankIn(U, k) == Cardinality({j \in U : j <= k})

SamePrior(row, p) ==
    row["Name"] = p.Name /\ row["Meter No."] = p.Meter
        /\ row["Prev Consumption"] = p.Consumption

\* C1: export yields one row per capture entry in ledger order (the matched
\* record's name, identifier and prior consumption, or "Not Found" three times,
\* and always the entry's consumptionField), followed by one row with an empty
\* current consumption, in store order, for each prior record whose canonical
\* identifier is non-empty and not consumed; |ledger| + unconsumed rows in all.
C1_ExportRows ==
    phase # "idle" =>
        LET rows == exported.rows
            L == exported.ledger
            S == exported.store
            U == Unconsumed(L, S)
        IN  /\ Len(rows) = Len(L) + Cardinality(U)
            /\ \A i \in DOMAIN L :
                  /\ rows[i]["Current Consumption"] = L[i].consumptionOCR
                  /\ IF MatchOf(L, S, i) # Null
                     THEN SamePrior(rows[i], MatchOf(L, S, i))
                     ELSE /\ rows[i]["Name"] = NotFound
                          /\ rows[i]["Meter No."] = NotFound
                          /\ rows[i]["Prev Consumption"] = NotFound
            /\ \A k \in U :
                  /\ SamePrior(rows[Len(L) + RankIn(U, k)], S[k])
                  /\ rows[Len(L) + RankIn(U, k)]["Current Consumption"] = <<>>

\* C1 witness: two capture entries, one matched and one not, three prior
\* records of which two are unconsumed: four rows
C1_Witness ==
    /\ phase = "exported"
    /\ Len(exported.ledger) = 2 /\ Len(exported.store) = 3
    /\ MatchOf(exported.ledger, exported.store, 1) # Null
    /\ MatchOf(exported.ledger, exported.store, 2) = Null
    /\ Cardinality(Unconsumed(exported.ledger, exported.store)) = 2
    /\ Len(exported.rows) = 4

\* C7: after the exported rows are loaded again, every row of the
\* unmatched-prior section is a prior record with the name, raw identifier and
\* prior consumption of the record it was exported from.
C7_RoundTrip ==
    phase = "reimported" =>
        LET L == exported.ledger
            S == exported.store
            U == Unconsumed(L, S)
        IN  /\ Len(prevData) = Len(exported.rows)
            /\ \A k \in U :
                  LET q == prevData[Len(L) + RankIn(U, k)]
                  IN  q.Name = S[k].Name /\ q.Meter = S[k].Meter
                        /\ q.Consumption = S[k].Consumption

\* C7 witness: a re-imported unmatched row whose three fields are not blank
C7_Witness ==
    /\ phase = "reimported"
    /\ \E k \in Unconsumed(exported.ledger, exported.store) :
          /\ exported.store[k].Name # <<>>
          /\ exported.store[k].Consumption # <<>>
          /\ prevData[Len(exported.ledger)
                 + RankIn(Unconsumed(exported.ledger, exported.store), k)].Consumption
               = exported.store[k].Consumption

\* C9: every prior record with a non-empty canonical identifier gives its
\* name, identifier and prior consumption to at least one export row.
\* Refuted by the code when two records share a canonical identifier and a
\* capture matches the first: the second is in no row.
C9_NoPriorLost ==
    phase # "idle" =>
        \A k \in DOMAIN exported.store :
            exported.store[k].CleanMeter # <<>> =>
                \E r \in DOMAIN exported.rows : SamePrior(exported.rows[r], exported.store[k])

---------------------------------------------------------------------------
(* Claims about the page (Spec, FairSpec) *)

\* recognitions in flight
InFlight == {t \in tasks : t.stage = "recognizing"}

\* image files are numbered in submission order
InSubmissionOrder ==
    \A i, j \in DOMAIN ocrResults :
        i < j => ocrResults[i].preview < ocrResults[j].preview

\* C2: at most one recognition is in flight at any moment and the ledger
\* lists the images in the order they were submitted.  Refuted by the code:
\* each change event starts its own handler, so a second submission is
\* recognised while the first still is, and whichever ends first is pushed first.
C2_OneAtATimeInOrder ==
    Cardinality(InFlight) <= 1 /\ InSubmissionOrder

IdsIncreasing ==
    /\ \A i, j \in DOMAIN ocrResults : i < j => ocrResults[i].id < ocrResults[j].id
    /\ \A i \in DOMAIN ocrResults : ocrResults[i].id < nextId

\* C3: in every reachable state the ids of the ledger are strictly increasing
\* in iteration order and below the next id; a reset leaves the ledger empty
\* and the next id 1; an entry pushed gets the next id.
C3_SequenceIds ==
    /\ []IdsIncreasing
    /\ [][Clear => (ocrResults' = <<>> /\ nextId' = 1)]_vars
    /\ [][Len(ocrResults') = Len(ocrResults) + 1 =>
             (ocrResults'[Len(ocrResults')].id = nextId /\ nextId' > nextId)]_vars

\* C3 witness: a reset came while recognitions were in flight, and two images
\* submitted before it are in the ledger, with ids 1 and 2
C3_Witness ==
    /\ Len(ocrResults) = 2
    /\ ocrResults[1].preview \in cleared /\ ocrResults[2].preview \in cleared
    /\ ocrResults[1].id = 1 /\ ocrResults[2].id = 2 /\ nextId = 3

\* image g follows a failed image in its batch
AfterFailure(g) ==
    \E b \in Range(submitted) :
        \E i, j \in DOMAIN b : i < j /\ b[i] \in failed /\ b[j] = g

\* the step of a failed image leaves the ledger as it was, or appends one
\* entry with both fields "Not Found"
FailureStepOk ==
    failed' # failed =>
        \/ ocrResults' = ocrResults
        \/ /\ Len(ocrResults') = Len(ocrResults) + 1
           /\ SubSeq(ocrResults', 1, Len(ocrResults)) = ocrResults
           /\ ocrResults'[Len(ocrResults')].meterOCR = NotFound
           /\ ocrResults'[Len(ocrResults')].consumptionOCR = NotFound

\* C4: when an image of a batch fails (the read throws, or the recognition
\* throws or gives no text), every later image of the batch is eventually
\* processed, the entries already in the ledger are left unchanged, and the
\* failed image adds no entry or one whose fields are both "Not Found".
C4_FailureDoesNotAbort ==
    /\ [][FailureStepOk]_vars
    /\ \A g \in 1..MaxImages : AfterFailure(g) ~> (g \in processed)

\* C4 witness: the image after a failed one of its batch is in the ledger
C4_Witness ==
    \E g \in processed :
        /\ AfterFailure(g)
        /\ g \notin failed
        /\ \E i \in DOMAIN ocrResults : ocrResults[i].preview = g

EntryFields == {"id", "preview", "rawText", "meterOCR", "consumptionOCR"}

\* an edit of (row, field) wrote `written` and nothing else
EditWrote(row, field, written) ==
    /\ Len(ocrResults') = Len(ocrResults)
    /\ ocrResults'[row][field] = written
    /\ \A i \in DOMAIN ocrResults, f \in EntryFields :
          (i # row \/ f # field) => ocrResults'[i][f] = ocrResults[i][f]
    /\ nextId' = nextId
    /\ prevData' = prevData

\* the name shown for a match
NameOfMatch(m) == IF m # Null THEN m.Name ELSE NotFound

\* in every state the table shows each entry's latest fields, and an export
\* taken now reports each entry's latest consumption and the match of its
\* latest meterOCR
ReadsAreFresh ==
    LET rows == ExportRows(ocrResults, prevData)
    IN  /\ Len(view) = Len(ocrResults)
        /\ \A i \in DOMAIN ocrResults :
              /\ view[i].meterOCR = ocrResults[i].meterOCR
              /\ view[i].consumptionOCR = ocrResults[i].consumptionOCR
              /\ rows[i]["Current Consumption"] = ocrResults[i].consumptionOCR
              /\ rows[i]["Name"] =
                    NameOfMatch(findPrevByOCR(ocrResults[i].meterOCR, prevData))

\* after the step the table shows, for every entry, the match of its latest
\* meterOCR
ViewIsRematched ==
    \A i \in DOMAIN view' :
        view'[i].name = NameOfMatch(findPrevByOCR(ocrResults'[i].meterOCR, prevData'))

\* C8 as stated: an edit sets the field of the targeted entry to the new
\* value and changes nothing else.  Refuted: the code stores the value trimmed.
C8_EditAsStated ==
    [][\A row \in DOMAIN view, field \in Fields, value \in EditTexts :
          EditLedger(row, field, value) => EditWrote(row, field, value)]_vars

\* C8 amended: an edit sets the field of the targeted entry to the new value
\* with leading and trailing white space removed, and leaves unchanged the
\* other field, every other entry, all ids, the ledger order and length, the
\* next id and the Record Store; the table and an export taken afterwards show
\* each entry's latest fields and the match of its latest identifier.
C8_Edit ==
    /\ []ReadsAreFresh
    /\ [][\A row \in DOMAIN view, field \in Fields, value \in EditTexts :
             EditLedger(row, field, value) =>
                 (EditWrote(row, field, Trim(value)) /\ ViewIsRematched)]_vars

\* C8 witness: an edited identifier matches a record that the recognised one
\* did not, and the table shows it
C8_Witness ==
    \E i \in DOMAIN ocrResults :
        /\ ocrResults[i].meterOCR = <<"1","2">>
        /\ view[i].name = <<"b">>
        /\ ocrResults[i].consumptionOCR = <<"1","3","0">>

\* C10: after a reset the ledger never holds an entry of an image submitted
\* before it.  Refuted by the code: Clear cancels nothing, and a recognition
\* in flight at the reset pushes its entry when it ends.
C10_ResetDiscards ==
    \A i \in DOMAIN ocrResults : ocrResults[i].preview \notin cleared

===========================================================================
